---------------------------- MODULE Spec2Model ----------------------------
(***************************************************************************)
(* A model of the crocodile / arl sources:                                 *)
(*   - arl/skymodel_solvers.py     solve_skymodel (the major cycle)        *)
(*   - arl/skymodel_operations.py  the SkyModel builders and add_skymodels *)
(*   - crocodile/simulate.py       xyz_to_uvw, baselines, xyz_to_baselines,*)
(*                                 simulate_point                          *)
(*                                                                         *)
(* Three specifications share the variables: SpecSolve steps through       *)
(* solve_skymodel statement by statement, SpecSky applies the SkyModel     *)
(* builders, SpecGeom applies the geometry functions and the simulator.    *)
(*                                                                         *)
(* Values.  An Image and a Visibility are modelled by one integer sample   *)
(* (one pixel, one visibility); a 3-vector is a triple of integers.  The   *)
(* hour angle and the declination are multiples of a quarter turn, so that *)
(* cos and sin are exactly -1, 0 or 1; the direction cosines l, m are      *)
(* integers in tenths.                                                     *)
(***************************************************************************)
EXTENDS Integers, Sequences, FiniteSets, TLC

VARIABLES
    \* ---- solve_skymodel -------------------------------------------------
    pc,         \* position in solve_skymodel
    params,     \* the params dict: a function on the keys that are present
    genv,       \* the module namespace of arl.skymodel_solvers, restricted
                \* to the names vispred, dirty, psf: a function on the
                \* names that are bound
    vis,        \* argument vis
    sm,         \* argument sm: [images, components], mutated in place
    sm0,        \* sm as it was when solve_skymodel was called
    nmajor,     \* local nmajor
    thresh,     \* local thresh
    visres,     \* local visres
    i,          \* loop variable of "for i in range(nmajor)"
    cc,         \* local cc, the component update of the last deconvolver call
    ccs,        \* every component update the deconvolver returned, in call order
    ncalls,     \* number of deconvolver invocations
    err,        \* the exception that left solve_skymodel, "none" if none
    failedAt,   \* cycle (1-based) in which a collaborator raised, 0 if none
    broke,      \* TRUE once the break of line 50 was taken
    lastRead,   \* the intermediates (vispred, dirty, psf) the last statement read
    computed,   \* the intermediates assigned by this run of solve_skymodel
    steps,      \* the major-cycle steps executed so far, in order
    \* ---- SkyModel store -------------------------------------------------
    smA, smB,   \* two SkyModels
    fsm,        \* result of add_skymodels(smA, smB)
    fsmSet,     \* TRUE once add_skymodels has returned
    \* ---- geometry and simulator -----------------------------------------
    ants_xyz,   \* antenna positions, a sequence of 3-vectors
    ha_range,   \* hour angles, in quarter turns
    dec,        \* declination, in quarter turns
    dist_uvw,   \* result of xyz_to_baselines: [ndim, rows]
    geomErr,    \* exception raised by xyz_to_baselines, "none" if none
    geomDone,   \* TRUE once xyz_to_baselines was applied
    lm,         \* the (l, m) passed to simulate_point
    simOut,     \* what simulate_point returned
    simErr,     \* exception raised by simulate_point, "none" if none
    simDone     \* TRUE once simulate_point was applied

solveVars == <<pc, params, genv, vis, sm, sm0, nmajor, thresh, visres, i, cc,
               ccs, ncalls, err, failedAt, broke, lastRead, computed, steps>>
skyVars   == <<smA, smB, fsm, fsmSet>>
geomVars  == <<ants_xyz, ha_range, dec, dist_uvw, geomErr, geomDone,
               lm, simOut, simErr, simDone>>
vars      == <<solveVars, skyVars, geomVars>>

-----------------------------------------------------------------------------
(* Bounds of the model *)

MaxMajor  == 5      \* largest nmajor a caller passes
MaxThresh == 2      \* largest threshold a caller passes
MaxImages == 2      \* most images in the SkyModel handed to solve_skymodel

(* Program constants *)

DefaultNMajor == 5  \* get_parameter(params, 'nmajor', 5)
DefaultThresh == 0  \* get_parameter(params, "threshold", 0.0)

-----------------------------------------------------------------------------
(* Helpers *)

RECURSIVE SumSeq(_)
SumSeq(s) == IF s = <<>> THEN 0 ELSE Head(s) + SumSeq(Tail(s))

Abs(x) == IF x < 0 THEN -x ELSE x

\* every function from a subset of Keys into Vals(key)
PartialFns(Keys, AllVals, Vals(_)) ==
    { f \in UNION { [S -> AllVals] : S \in SUBSET Keys } :
        \A k \in DOMAIN f : f[k] \in Vals(k) }

\* every sequence over S of length at most n
SeqsUpTo(S, n) == UNION { [1..k -> S] : k \in 0..n }

-----------------------------------------------------------------------------
(* Collaborators of solve_skymodel that live in other modules of arl *)

\* arl.parameters.get_parameter: the value under key, else the default
get_parameter(p, key, default) == IF key \in DOMAIN p THEN p[key] ELSE default

\* arl.visibility_operations.combine_visibility: the weighted sum
combine_visibility(v1, v2, w1, w2) == w1 * v1 + w2 * v2

\* Image += Image: the pixels are added in place
IAdd(image, update) == image + update

-----------------------------------------------------------------------------
(* solve_skymodel, arl/skymodel_solvers.py *)

Intermediates == {"vispred", "dirty", "psf"}

VisVals    == {1, 2}        \* observed visibility
VispredVal == {0, 1}        \* what the name vispred may be bound to
DirtyVals  == {0, 1, -2}    \* what the name dirty may be bound to
PsfVals    == {1}           \* what the name psf may be bound to
CCVals     == {1, 2}        \* component updates a deconvolver returns
ImgVals    == {0, 1}        \* pixel values of the images of sm
CompLists  == {<<>>, <<"c1">>}

GlobalVals(name) ==
    CASE name = "vispred" -> VispredVal
      [] name = "dirty"   -> DirtyVals
      [] name = "psf"     -> PsfVals

ParamVals(key) ==
    CASE key = "nmajor"    -> 0..MaxMajor
      [] key = "threshold" -> 0..MaxThresh

\* numpy.abs(dirty.data).max() < 1.1 * thresh.  For an integer peak and an
\* integer thresh below 10 the float comparison agrees with 10*peak < 11*thresh.
BelowThreshold(peak, th) == 10 * peak < 11 * th

SolveIdle ==
    /\ pc = "idle" /\ params = <<>> /\ genv = <<>> /\ vis = 0
    /\ sm = [images |-> <<>>, components |-> <<>>]
    /\ sm0 = [images |-> <<>>, components |-> <<>>]
    /\ nmajor = 0 /\ thresh = 0 /\ visres = 0 /\ i = 0 /\ cc = 0
    /\ ccs = <<>> /\ ncalls = 0 /\ err = "none" /\ failedAt = 0
    /\ broke = FALSE /\ lastRead = {} /\ computed = {} /\ steps = <<>>

SkyIdle ==
    /\ smA = [images |-> <<>>, components |-> <<>>]
    /\ smB = [images |-> <<>>, components |-> <<>>]
    /\ fsm = [images |-> <<>>, components |-> <<>>]
    /\ fsmSet = FALSE

GeomIdle ==
    /\ ants_xyz = <<>> /\ ha_range = <<>> /\ dec = 0
    /\ dist_uvw = [ndim |-> 1, rows |-> <<>>]
    /\ geomErr = "none" /\ geomDone = FALSE
    /\ lm = <<0, 0>> /\ simOut = <<>> /\ simErr = "none" /\ simDone = FALSE

\* The call solve_skymodel(vis, sm, deconvolver, params): any params dict,
\* any SkyModel.  vispred, dirty and psf are free names of the function (the
\* statements that would assign them, lines 35, 37, 45 and 47, are commented
\* out); Python looks them up in the module namespace, which "from
\* arl.data_models import *" and "from arl.parameters import *" fill (numpy
\* itself comes from there).  A name that is not bound raises NameError where
\* it is read; both cases are modelled for each name.
InitSolve ==
    /\ pc = "call"
    /\ params \in PartialFns({"nmajor", "threshold"}, 0..(MaxMajor + MaxThresh), ParamVals)
    /\ genv \in PartialFns(Intermediates, VispredVal \cup DirtyVals \cup PsfVals, GlobalVals)
    /\ vis \in VisVals
    /\ sm \in [images : SeqsUpTo(ImgVals, MaxImages), components : CompLists]
    /\ sm0 = sm
    /\ nmajor = 0 /\ thresh = 0 /\ visres = 0 /\ i = 0 /\ cc = 0
    /\ ccs = <<>> /\ ncalls = 0 /\ err = "none" /\ failedAt = 0
    /\ broke = FALSE /\ lastRead = {} /\ computed = {} /\ steps = <<>>
    /\ SkyIdle /\ GeomIdle

\* An exception leaves the function: nothing else changes.
RaiseFrom(e, read) ==
    /\ pc' = "raised"
    /\ err' = e
    /\ lastRead' = read

\* lines 27-31: nmajor = get_parameter(params, 'nmajor', 5)
Start ==
    /\ pc = "call"
    /\ nmajor' = get_parameter(params, "nmajor", DefaultNMajor)
    /\ pc' = "l36"
    /\ lastRead' = {}
    /\ UNCHANGED <<params, genv, vis, sm, sm0, thresh, visres, i, cc, ccs, ncalls,
                   err, failedAt, broke, computed, steps,
                   skyVars, geomVars>>

\* line 36: visres = combine_visibility(vis, vispred, 1.0, -1.0)
\* (line 35, the predict that would assign vispred, is commented out)
InitialResidual ==
    /\ pc = "l36"
    /\ steps' = Append(steps, "SUBTRACT")
    /\ IF "vispred" \in DOMAIN genv
         THEN /\ visres' = combine_visibility(vis, genv["vispred"], 1, -1)
              /\ pc' = "l38"
              /\ lastRead' = {"vispred"}
              /\ err' = err
         ELSE /\ RaiseFrom("NameError", {"vispred"})
              /\ visres' = visres
    /\ UNCHANGED <<params, genv, vis, sm, sm0, nmajor, thresh, i, cc, ccs, ncalls,
                   failedAt, broke, computed,
                   skyVars, geomVars>>

\* line 38: thresh = get_parameter(params, "threshold", 0.0)
ReadThreshold ==
    /\ pc = "l38"
    /\ thresh' = get_parameter(params, "threshold", DefaultThresh)
    /\ pc' = "l40"
    /\ lastRead' = {}
    /\ UNCHANGED <<params, genv, vis, sm, sm0, nmajor, visres, i, cc, ccs, ncalls,
                   err, failedAt, broke, computed, steps,
                   skyVars, geomVars>>

\* line 40: comp = sm.images[0]; comp aliases the first image of sm.
\* An empty image list raises IndexError.
BindComp ==
    /\ pc = "l40"
    /\ lastRead' = {}
    /\ IF Len(sm.images) >= 1
         THEN pc' = "for" /\ err' = err
         ELSE pc' = "raised" /\ err' = "IndexError"
    /\ i' = 0
    /\ UNCHANGED <<params, genv, vis, sm, sm0, nmajor, thresh, visres, cc, ccs,
                   ncalls, failedAt, broke, computed, steps,
                   skyVars, geomVars>>

\* line 41: for i in range(nmajor); i counts the cycles completed so far
LoopHead ==
    /\ pc = "for"
    /\ pc' = IF i < nmajor THEN "l43" ELSE "l52"
    /\ lastRead' = {}
    /\ UNCHANGED <<params, genv, vis, sm, sm0, nmajor, thresh, visres, i, cc, ccs,
                   ncalls, err, failedAt, broke, computed, steps,
                   skyVars, geomVars>>

\* line 43: the free names dirty and psf are evaluated, in that order, before
\* the call; an unbound one raises NameError and the deconvolver is not called.
DeconvolveUnbound ==
    /\ pc = "l43"
    /\ ~ ({"dirty", "psf"} \subseteq DOMAIN genv)
    /\ steps' = Append(steps, "DECONVOLVE")
    /\ RaiseFrom("NameError",
                 IF "dirty" \in DOMAIN genv THEN {"dirty", "psf"} ELSE {"dirty"})
    /\ UNCHANGED <<params, genv, vis, sm, sm0, nmajor, thresh, visres, i, cc, ccs,
                   ncalls, failedAt, broke, computed,
                   skyVars, geomVars>>

\* line 43: cc, res = deconvolver(dirty, psf, params={}), the call returns
Deconvolve ==
    /\ pc = "l43"
    /\ {"dirty", "psf"} \subseteq DOMAIN genv
    /\ \E update \in CCVals :
          /\ cc' = update
          /\ ccs' = Append(ccs, update)
    /\ ncalls' = ncalls + 1
    /\ steps' = Append(steps, "DECONVOLVE")
    /\ lastRead' = {"dirty", "psf"}
    /\ pc' = "l44"
    /\ UNCHANGED <<params, genv, vis, sm, sm0, nmajor, thresh, visres, i, err,
                   failedAt, broke, computed,
                   skyVars, geomVars>>

\* a deconvolver that swallowed its failure and was called again
DeconvolveRetries ==
    /\ pc = "l43"
    /\ {"dirty", "psf"} \subseteq DOMAIN genv
    /\ ncalls' = ncalls + 1
    /\ failedAt' = i + 1
    /\ steps' = Append(steps, "DECONVOLVE")
    /\ lastRead' = {"dirty", "psf"}
    /\ pc' = "l43"
    /\ UNCHANGED <<params, genv, vis, sm, sm0, nmajor, thresh, visres, i, cc, ccs,
                   err, broke, computed,
                   skyVars, geomVars>>

\* line 43: the deconvolver raises; there is no try/except in solve_skymodel,
\* so the exception leaves the function as it is
DeconvolveRaises ==
    /\ pc = "l43"
    /\ {"dirty", "psf"} \subseteq DOMAIN genv
    /\ ncalls' = ncalls + 1
    /\ failedAt' = i + 1
    /\ steps' = Append(steps, "DECONVOLVE")
    /\ RaiseFrom("DeconvolverError", {"dirty", "psf"})
    /\ UNCHANGED <<params, genv, vis, sm, sm0, nmajor, thresh, visres, i, cc, ccs,
                   broke, computed,
                   skyVars, geomVars>>

\* comp = comp + cc: a new image is bound to comp, sm.images[0] is untouched
AccumulateRebinds ==
    /\ pc = "l44"
    /\ steps' = Append(steps, "ACCUMULATE")
    /\ lastRead' = {}
    /\ pc' = "l46"
    /\ UNCHANGED <<params, genv, vis, sm, sm0, nmajor, thresh, visres, i, cc, ccs,
                   ncalls, err, failedAt, broke, computed,
                   skyVars, geomVars>>

\* line 44: comp += cc, in place on the image comp aliases
Accumulate ==
    /\ pc = "l44"
    /\ sm' = [sm EXCEPT !.images[1] = IAdd(@, cc)]
    /\ steps' = Append(steps, "ACCUMULATE")
    /\ lastRead' = {}
    /\ pc' = "l46"
    /\ UNCHANGED <<params, genv, vis, sm0, nmajor, thresh, visres, i, cc, ccs,
                   ncalls, err, failedAt, broke, computed,
                   skyVars, geomVars>>

\* line 46: visres = combine_visibility(vis, vispred, 1.0, -1.0)
\* (line 45, the predict, is commented out: vispred is what it was)
CycleResidual ==
    /\ pc = "l46"
    /\ visres' = combine_visibility(vis, genv["vispred"], 1, -1)
    /\ steps' = Append(steps, "SUBTRACT")
    /\ lastRead' = {"vispred"}
    /\ pc' = "l48"
    /\ UNCHANGED <<params, genv, vis, sm, sm0, nmajor, thresh, i, cc, ccs, ncalls,
                   err, failedAt, broke, computed,
                   skyVars, geomVars>>

\* lines 48-51: if numpy.abs(dirty.data).max() < 1.1 * thresh: break
\* (line 47, the invert, is commented out: dirty is what it was)
CheckThreshold ==
    /\ pc = "l48"
    /\ steps' = Append(steps, "CHECK")
    /\ lastRead' = {"dirty"}
    /\ IF BelowThreshold(Abs(genv["dirty"]), thresh)
         THEN /\ broke' = TRUE
              /\ pc' = "l52"
              /\ i' = i
         ELSE /\ broke' = broke
              /\ pc' = "for"
              /\ i' = i + 1
    /\ UNCHANGED <<params, genv, vis, sm, sm0, nmajor, thresh, visres, cc, ccs,
                   ncalls, err, failedAt, computed,
                   skyVars, geomVars>>

\* lines 52-53: return visres, sm
Return ==
    /\ pc = "l52"
    /\ pc' = "done"
    /\ lastRead' = {}
    /\ UNCHANGED <<params, genv, vis, sm, sm0, nmajor, thresh, visres, i, cc, ccs,
                   ncalls, err, failedAt, broke, computed, steps,
                   skyVars, geomVars>>

NextSolve ==
    \/ Start
    \/ InitialResidual
    \/ ReadThreshold
    \/ BindComp
    \/ LoopHead
    \/ DeconvolveUnbound
    \/ Deconvolve
    \/ DeconvolveRaises
    \/ Accumulate
    \/ CycleResidual
    \/ CheckThreshold
    \/ Return

SpecSolve == InitSolve /\ [][NextSolve]_vars

-----------------------------------------------------------------------------
(* Properties of solve_skymodel *)

Terminated == pc \in {"done", "raised"}

CyclePattern == <<"PREDICT", "SUBTRACT", "INVERT", "DECONVOLVE", "ACCUMULATE", "CHECK">>

\* number of component updates already added into sm.images[0]
Accumulated == IF pc = "l44" THEN Len(ccs) - 1 ELSE Len(ccs)

\* C1: in every major cycle, the first included, the steps run in the order
\* PREDICT, SUBTRACT, INVERT, DECONVOLVE, ACCUMULATE, CHECK, and no statement
\* reads an intermediate (vispred, dirty, psf) that this run has not computed.
C1_OrderedAndDefined ==
    /\ \A k \in 1..Len(steps) : steps[k] = CyclePattern[((k - 1) % 6) + 1]
    /\ lastRead \subseteq computed

\* C2: for every nmajor >= 0 and every threshold the solver returns normally
\* (unless a collaborator raised) after at most nmajor deconvolver calls: it
\* stopped at a CHECK whose peak was below 1.1 * threshold, or after the
\* nmajor-th cycle.
C2_ReachesDone ==
    (Terminated /\ failedAt = 0) =>
        /\ pc = "done"
        /\ ncalls <= nmajor
        /\ IF broke THEN BelowThreshold(Abs(genv["dirty"]), thresh)
                    ELSE ncalls = nmajor

\* C3: with maxMajorCycles = 0 the solver performs no cycle and returns the
\* initial SkyModel unchanged together with the input Visibility unmodified.
C3_ZeroCycles ==
    ("nmajor" \in DOMAIN params /\ params["nmajor"] = 0 /\ Terminated) =>
        /\ pc = "done"
        /\ ncalls = 0
        /\ sm = sm0
        /\ visres = vis

\* The run of C4: one point source of flux vis, an empty model image,
\* threshold 0, 5 major cycles, and a deconvolver whose first call returns
\* exactly the injected flux.
C4_Scenario ==
    /\ pc # "call"
    /\ nmajor = 5
    /\ get_parameter(params, "threshold", DefaultThresh) = 0
    /\ sm0.images = <<0>>
    /\ ccs # <<>> => ccs[1] = vis

\* C4: that run terminates after exactly 1 major cycle, with final residual 0
\* and final SkyModel flux equal to the injected flux.
C4_OneCycle ==
    (C4_Scenario /\ Terminated /\ failedAt = 0) =>
        /\ pc = "done"
        /\ ncalls = 1
        /\ visres = 0
        /\ sm.images[1] = vis

C9_RunsAllCycles ==
    (get_parameter(params, "threshold", DefaultThresh) = 0 /\ Terminated /\ failedAt = 0) =>
        /\ pc = "done"
        /\ ~ broke
        /\ ncalls = get_parameter(params, "nmajor", DefaultNMajor)

-----------------------------------------------------------------------------
(* The SkyModel store, arl/skymodel_operations.py *)

(* Python values carry their type: a list is told from an Image or a       *)
(* SkyComponent, so that a list of lists differs from a list of items.     *)

MaxItems == 2       \* most images, and most components, appended to a SkyModel

ImageIds == {"im1", "im2"}
CompIds  == {"comp1", "comp2"}

PyList(items)      == [t |-> "list", v |-> items]
PyImage(id)        == [t |-> "Image", v |-> id]
PySkyComponent(id) == [t |-> "SkyComponent", v |-> id]

\* arl.data_models.SkyModel(): no image, no component
SkyModel == [images |-> PyList(<<>>), components |-> PyList(<<>>)]

\* list.append
PyAppend(list, item) == PyList(Append(list.v, item))

\* lines 100-103: fsm.images = [sm1.images, sm2.images], and the same for
\* the components: a list whose two elements are the lists of sm1 and of sm2
add_skymodels(sm1, sm2) ==
    [images     |-> PyList(<<sm1.images, sm2.images>>),
     components |-> PyList(<<sm1.components, sm2.components>>)]

InitSky ==
    /\ smA = SkyModel
    /\ smB = SkyModel
    /\ fsm = SkyModel
    /\ fsmSet = FALSE
    /\ SolveIdle /\ GeomIdle

\* fsm holds the list objects of smA and smB themselves: an append to one of
\* them after add_skymodels shows in fsm
FsmAfter(a, b) == IF fsmSet THEN add_skymodels(a, b) ELSE fsm

\* lines 106-114: create_skymodel_from_image
create_skymodel_from_image ==
    /\ ~ fsmSet
    /\ \E im \in ImageIds :
         LET new == [SkyModel EXCEPT !.images = PyAppend(@, PyImage(im))]
         IN  \/ smA' = new /\ smB' = smB
             \/ smB' = new /\ smA' = smA
    /\ UNCHANGED <<fsm, fsmSet, solveVars, geomVars>>

\* lines 128-136: create_skymodel_from_component
create_skymodel_from_component ==
    /\ ~ fsmSet
    /\ \E comp \in CompIds :
         LET new == [SkyModel EXCEPT !.components = PyAppend(@, PySkyComponent(comp))]
         IN  \/ smA' = new /\ smB' = smB
             \/ smB' = new /\ smA' = smA
    /\ UNCHANGED <<fsm, fsmSet, solveVars, geomVars>>

\* lines 117-125: add_image_to_skymodel, sm.images.append(im)
add_image_to_skymodel ==
    /\ \E im \in ImageIds :
         \/ /\ Len(smA.images.v) < MaxItems
            /\ smA' = [smA EXCEPT !.images = PyAppend(@, PyImage(im))]
            /\ smB' = smB
         \/ /\ Len(smB.images.v) < MaxItems
            /\ smB' = [smB EXCEPT !.images = PyAppend(@, PyImage(im))]
            /\ smA' = smA
    /\ fsm' = FsmAfter(smA', smB')
    /\ UNCHANGED <<fsmSet, solveVars, geomVars>>

\* lines 139-147: add_component_to_skymodel, sm.components.append(comp)
add_component_to_skymodel ==
    /\ \E comp \in CompIds :
         \/ /\ Len(smA.components.v) < MaxItems
            /\ smA' = [smA EXCEPT !.components = PyAppend(@, PySkyComponent(comp))]
            /\ smB' = smB
         \/ /\ Len(smB.components.v) < MaxItems
            /\ smB' = [smB EXCEPT !.components = PyAppend(@, PySkyComponent(comp))]
            /\ smA' = smA
    /\ fsm' = FsmAfter(smA', smB')
    /\ UNCHANGED <<fsmSet, solveVars, geomVars>>

\* lines 93-103: fsm = add_skymodels(smA, smB)
AddSkymodels ==
    /\ ~ fsmSet
    /\ fsm' = add_skymodels(smA, smB)
    /\ fsmSet' = TRUE
    /\ UNCHANGED <<smA, smB, solveVars, geomVars>>

NextSky ==
    \/ create_skymodel_from_image
    \/ create_skymodel_from_component
    \/ add_image_to_skymodel
    \/ add_component_to_skymodel
    \/ AddSkymodels

SpecSky == InitSky /\ [][NextSky]_vars

\* C7: add_skymodels(A, B) has A's images followed by B's images and A's
\* components followed by B's components: the counts add up, nothing is
\* merged.
C7_Concatenates ==
    fsmSet =>
        /\ Len(fsm.images.v) = Len(smA.images.v) + Len(smB.images.v)
        /\ Len(fsm.components.v) = Len(smA.components.v) + Len(smB.components.v)
        /\ fsm.images = PyList(smA.images.v \o smB.images.v)
        /\ fsm.components = PyList(smA.components.v \o smB.components.v)

-----------------------------------------------------------------------------
(* Geometry and simulator, crocodile/simulate.py *)

MaxAnts == 3        \* most antennas
MaxHA   == 2        \* most hour angles in ha_range

Quarter  == 0..3    \* an angle, in quarter turns
AntVals  == {<<0, 0, 0>>, <<1, 2, 3>>, <<4, 0, -1>>}   \* antenna positions
LMVals   == {0, 6, 9}       \* l and m, in tenths: 9 is the 0.9 of (0.9, 0.9)

\* numpy.cos and numpy.sin at a multiple of a quarter turn
Cos(q) == CASE q % 4 = 0 -> 1 [] q % 4 = 1 -> 0 [] q % 4 = 2 -> -1 [] q % 4 = 3 -> 0
Sin(q) == CASE q % 4 = 0 -> 0 [] q % 4 = 1 -> 1 [] q % 4 = 2 -> 0 [] q % 4 = 3 -> -1

\* lines 86-95: one row of xyz_to_uvw
uvw_row(p, ha, d) ==
    LET x  == p[1]
        y  == p[2]
        z  == p[3]
        u  == x * Cos(ha) - y * Sin(ha)
        v0 == x * Sin(ha) + y * Cos(ha)
        v  == z * Cos(d) + v0 * Sin(d)
        w  == z * Sin(d) - v0 * Cos(d)
    IN  <<u, v, w>>

\* lines 73-95: xyz_to_uvw, row by row
xyz_to_uvw(xyz, ha, d) == [k \in 1..Len(xyz) |-> uvw_row(xyz[k], ha, d)]

\* ants_uvw[i] - ants_uvw[j]: the baseline with the other sign
baseline_swapped(ants_uvw, a, b) ==
    <<ants_uvw[a][1] - ants_uvw[b][1],
      ants_uvw[a][2] - ants_uvw[b][2],
      ants_uvw[a][3] - ants_uvw[b][3]>>

\* line 111: ants_uvw[j] - ants_uvw[i]
baseline(ants_uvw, a, b) ==
    <<ants_uvw[b][1] - ants_uvw[a][1],
      ants_uvw[b][2] - ants_uvw[a][2],
      ants_uvw[b][3] - ants_uvw[a][3]>>

\* line 110-111: for j in range(i + 1, N): res.append(...); a and b are the
\* 1-based i and j
RECURSIVE baselines_inner(_, _, _, _)
baselines_inner(ants_uvw, a, b, res) ==
    IF b > Len(ants_uvw) THEN res
    ELSE baselines_inner(ants_uvw, a, b + 1, Append(res, baseline(ants_uvw, a, b)))

\* line 109: for i in range(N)
RECURSIVE baselines_outer(_, _, _)
baselines_outer(ants_uvw, a, res) ==
    IF a > Len(ants_uvw) THEN res
    ELSE baselines_outer(ants_uvw, a + 1, baselines_inner(ants_uvw, a, a + 1, res))

\* numpy.array(res): an empty list gives an array of shape (0,), a list of
\* B rows one of shape (B, 3)
NumpyArray(rows) == [ndim |-> IF rows = <<>> THEN 1 ELSE 2, rows |-> rows]

\* lines 100-115: baselines
baselines(ants_uvw) == NumpyArray(baselines_outer(ants_uvw, 1, <<>>))

\* numpy.concatenate of a non-empty list of arrays of one shape
RECURSIVE ConcatRows(_)
ConcatRows(arrays) ==
    IF arrays = <<>> THEN <<>> ELSE Head(arrays).rows \o ConcatRows(Tail(arrays))

\* lines 120-132: xyz_to_baselines; numpy.concatenate raises ValueError
\* ("need at least one array to concatenate") on an empty list
xyz_to_baselines(xyz, has, d) ==
    LET blocks == [t \in 1..Len(has) |-> baselines(xyz_to_uvw(xyz, has[t], d))]
    IN  IF blocks = <<>>
          THEN [err |-> "ValueError", value |-> NumpyArray(<<>>)]
          ELSE [err |-> "none", value |-> NumpyArray(ConcatRows(blocks))]

\* One simulated visibility.  With s = (l, m, sqrt(1 - l**2 - m**2) - 1),
\* l and m in tenths, the visibility of the baseline (u, v, w) is
\* exp(-2j pi (a / 10 + w (sqrt(n2) / 10 - 1))) for a = u l + v m and
\* n2 = 100 - l**2 - m**2; numpy.sqrt of a negative float is nan (with a
\* RuntimeWarning, no exception), and every product and sum with it is nan.
point_visibility(row, l, m) ==
    LET n2 == 100 - l * l - m * m
    IN  IF n2 < 0
          THEN [nan |-> TRUE, a |-> 0, w |-> 0, n2 |-> 0]
          ELSE [nan |-> FALSE, a |-> row[1] * l + row[2] * m, w |-> row[3], n2 |-> n2]

\* lines 159-179: simulate_point; numpy.dot of an array of shape (0,) with s
\* raises ValueError (shapes not aligned)
simulate_point(uvw, l, m) ==
    IF uvw.ndim = 1
      THEN [err |-> "ValueError", value |-> <<>>]
      ELSE [err |-> "none",
            value |-> [k \in 1..Len(uvw.rows) |-> point_visibility(uvw.rows[k], l, m)]]

InitGeom ==
    /\ ants_xyz \in SeqsUpTo(AntVals, MaxAnts)
    /\ ha_range \in SeqsUpTo(Quarter, MaxHA)
    /\ dec \in Quarter
    /\ dist_uvw = NumpyArray(<<>>)
    /\ geomErr = "none" /\ geomDone = FALSE
    /\ lm = <<0, 0>> /\ simOut = <<>> /\ simErr = "none" /\ simDone = FALSE
    /\ SolveIdle /\ SkyIdle

\* dist_uvw = xyz_to_baselines(ants_xyz, ha_range, dec)
XyzToBaselines ==
    /\ ~ geomDone
    /\ LET r == xyz_to_baselines(ants_xyz, ha_range, dec)
       IN  /\ geomErr' = r.err
           /\ dist_uvw' = r.value
    /\ geomDone' = TRUE
    /\ UNCHANGED <<ants_xyz, ha_range, dec, lm, simOut, simErr, simDone,
                   solveVars, skyVars>>

\* simulate_point(dist_uvw, l, m) on the baselines computed
SimulatePoint ==
    /\ geomDone /\ geomErr = "none" /\ ~ simDone
    /\ \E l \in LMVals, m \in LMVals :
         LET r == simulate_point(dist_uvw, l, m)
         IN  /\ lm' = <<l, m>>
             /\ simErr' = r.err
             /\ simOut' = r.value
    /\ simDone' = TRUE
    /\ UNCHANGED <<ants_xyz, ha_range, dec, dist_uvw, geomErr, geomDone,
                   solveVars, skyVars>>

NextGeom ==
    \/ XyzToBaselines
    \/ SimulatePoint

SpecGeom == InitGeom /\ [][NextGeom]_vars

\* C6: simulate_point with l^2 + m^2 > 1 fails with a DomainError and
\* returns no visibilities, never a result computed from a nan n.  Stated
\* for the baseline sets that hold a baseline: those are the cases in which
\* numpy.dot has rows to multiply.
C6_DomainError ==
    (simDone /\ dist_uvw.rows # <<>> /\ lm[1] * lm[1] + lm[2] * lm[2] > 100) =>
        /\ simErr = "DomainError"
        /\ simOut = <<>>

\* position (1-based) of the pair (a, b), a < b, of n antennas in the
\* lexicographic enumeration of the pairs
PairIndex(a, b, n) == (a - 1) * n - ((a - 1) * a) \div 2 + (b - a)

\* dist_uvw is, for each hour angle in order, the block of the N(N-1)/2
\* baselines uvw[j] - uvw[i], i < j, in lexicographic order of (i, j)
BaselineBlocks ==
    LET n == Len(ants_xyz)
        T == Len(ha_range)
        P == (n * (n - 1)) \div 2
    IN  /\ Len(dist_uvw.rows) = T * P
        /\ \A t \in 1..T :
             LET uvw == xyz_to_uvw(ants_xyz, ha_range[t], dec)
             IN  \A a \in 1..n : \A b \in (a + 1)..n :
                    dist_uvw.rows[(t - 1) * P + PairIndex(a, b, n)] =
                        <<uvw[b][1] - uvw[a][1], uvw[b][2] - uvw[a][2], uvw[b][3] - uvw[a][3]>>

\* C8 as stated: for every N and every hour-angle sequence of length T,
\* xyz_to_baselines returns the T blocks of N(N-1)/2 baselines.
C8_AnyLength == geomDone => (geomErr = "none" /\ BaselineBlocks)

\* C8, amended: the same for a hour-angle sequence of length T >= 1.
C8_NonEmptyRange == (geomDone /\ ha_range # <<>>) => (geomErr = "none" /\ BaselineBlocks)

\* three different antennas at two different hour angles: two blocks of
\* three baselines
C8_Witness ==
    /\ geomDone
    /\ Len(ants_xyz) = 3 /\ Cardinality({ants_xyz[k] : k \in 1..3}) = 3
    /\ Len(ha_range) = 2 /\ ha_range[1] # ha_range[2]
    /\ Len(dist_uvw.rows) = 6
    /\ dist_uvw.rows[1] # dist_uvw.rows[4]

=============================================================================
